---- MODULE Spec2Model ----
(***************************************************************************)
(* Model of src/streamlit_app.py: the tool-calling loop                    *)
(* get_openai_response, the tool dispatcher handle_tool_calls, the flight  *)
(* lookup search_flights and the session driver main.                      *)
(*                                                                         *)
(* Conventions.  A Python str is a sequence of text fragments, so that an  *)
(* f-string is a concatenation and "contains" is decidable; "" is << >>.   *)
(* An Optional value is a tagged record: None or Str(s) or Num(s).  A      *)
(* Python dict is a TLA+ function whose DOMAIN is the set of keys present. *)
(***************************************************************************)
EXTENDS Integers, Sequences, FiniteSets, TLC

\* ------------------------------------------------------------------ bounds
MaxTurns == 2
MaxSessionCalls == 5

\* ----------------------------------------------------- Python value model
None == [t |-> "none", v |-> << >>]
Str(s) == [t |-> "str", v |-> s]
Num(s) == [t |-> "num", v |-> s]
EmptyDict == [k \in {} |-> None]

\* bool(x) for None / str / number
Truthy(p) == p.t # "none" /\ p.v # << >> /\ p # Num(<<"0">>)

\* x or "" (src line 333, 355)
OrEmpty(p) == IF Truthy(p) THEN p.v ELSE << >>

\* dict.get(key, default)
Get(d, k, default) == IF k \in DOMAIN d THEN d[k] ELSE default

Contains(s, frag) == \E i \in 1..Len(s) : s[i] = frag

Min(a, b) == IF a < b THEN a ELSE b

\* str.upper() on the fragments that occur in the model
UpperFrag(f) ==
    CASE f = "jfk" -> "JFK"
      [] f = "lax" -> "LAX"
      [] f = "aa" -> "AA"
      [] f = "aa100" -> "AA100"
      [] OTHER -> f

Upper(s) == [i \in 1..Len(s) |-> UpperFrag(s[i])]

\* ------------------------------------------------------------- json.loads
\* Argument text is a sequence of JSON tokens.
Tok(t, v) == [t |-> t, v |-> v]
LBrace == Tok("{", "")
RBrace == Tok("}", "")
LBrack == Tok("[", "")
RBrack == Tok("]", "")
Colon == Tok(":", "")
Comma == Tok(",", "")
TStr(s) == Tok("str", s)
TNum(s) == Tok("num", s)
TNull == Tok("null", "")

IsScalarTok(tok) == tok.t \in {"str", "num", "null"}

ScalarValue(tok) ==
    CASE tok.t = "str" -> Str(IF tok.v = "" THEN << >> ELSE <<tok.v>>)
      [] tok.t = "num" -> Num(<<tok.v>>)
      [] OTHER -> None

\* members of an object: key ":" scalar ("," key ":" scalar)*, from index i
RECURSIVE ParseMembers(_, _, _)
ParseMembers(toks, i, acc) ==
    IF i + 2 > Len(toks) - 1
    THEN [ok |-> FALSE, d |-> EmptyDict]
    ELSE IF toks[i].t = "str" /\ toks[i + 1] = Colon /\ IsScalarTok(toks[i + 2])
         THEN LET k == toks[i].v
                  val == ScalarValue(toks[i + 2])
                  acc2 == [x \in (DOMAIN acc) \cup {k} |->
                              IF x = k THEN val ELSE acc[x]]
              IN  IF i + 3 = Len(toks)
                  THEN [ok |-> TRUE, d |-> acc2]
                  ELSE IF toks[i + 3] = Comma
                       THEN ParseMembers(toks, i + 4, acc2)
                       ELSE [ok |-> FALSE, d |-> EmptyDict]
         ELSE [ok |-> FALSE, d |-> EmptyDict]

\* json.loads(text): kind "dict" with the parsed object, kind "other" for a
\* JSON value that is not an object, kind "error" for JSONDecodeError.
json_loads(toks) ==
    IF Len(toks) = 0 THEN [kind |-> "error", d |-> EmptyDict]
    ELSE IF toks = <<LBrace, RBrace>> THEN [kind |-> "dict", d |-> EmptyDict]
    ELSE IF toks = <<LBrack, RBrack>> THEN [kind |-> "other", d |-> EmptyDict]
    ELSE IF Len(toks) = 1 /\ IsScalarTok(toks[1])
         THEN [kind |-> "other", d |-> EmptyDict]
    ELSE IF toks[1] = LBrace /\ toks[Len(toks)] = RBrace
         THEN LET r == ParseMembers(toks, 2, EmptyDict)
              IN  IF r.ok THEN [kind |-> "dict", d |-> r.d]
                  ELSE [kind |-> "error", d |-> EmptyDict]
    ELSE [kind |-> "error", d |-> EmptyDict]

\* ------------------------------------------------------------- json.dumps
NA == Str(<<"N/A">>)

\* text of one JSON scalar
DumpValue(p) ==
    CASE p.t = "none" -> <<"null">>
      [] p.t = "num" -> p.v
      [] OTHER -> <<"\"">> \o p.v \o <<"\"">>

DumpEndpoint(e) ==
    <<"{", "\"airport\": ">> \o DumpValue(e.airport)
    \o <<"\"iata\": ">> \o DumpValue(e.iata)
    \o <<"\"scheduled\": ">> \o DumpValue(e.scheduled)
    \o <<"\"estimated\": ">> \o DumpValue(e.estimated)
    \o <<"\"status\": ">> \o DumpValue(e.status) \o <<"}">>

DumpInfo(info) ==
    <<"{", "\"flight_number\": ">> \o DumpValue(info.flight_number)
    \o <<"\"airline\": ">> \o DumpValue(info.airline)
    \o <<"\"departure\": ">> \o DumpEndpoint(info.departure)
    \o <<"\"arrival\": ">> \o DumpEndpoint(info.arrival)
    \o <<"\"flight_status\": ">> \o DumpValue(info.flight_status) \o <<"}">>

RECURSIVE DumpItems(_, _)
DumpItems(infos, i) ==
    IF i > Len(infos) THEN << >>
    ELSE DumpInfo(infos[i]) \o DumpItems(infos, i + 1)

\* json.dumps(flight_info, indent=2) (src line 280)
json_dumps(infos) == <<"[">> \o DumpItems(infos, 1) \o <<"]">>

\* --------------------------------------------------------- search_flights
NoKeyMessage ==
    <<"Error: Aviationstack API key (", "CLIENTSECRET",
      ") not found in environment variables">>

NoFlightsMessage == <<"No flights found matching the search criteria.">>

\* line 253: flights[:5]
MaxFlights == 5

\* lines 262-268 / 269-275: one endpoint of the record
Endpoint(e) ==
    [airport |-> Get(e, "airport", NA), iata |-> Get(e, "iata", NA),
     scheduled |-> Get(e, "scheduled", NA),
     estimated |-> Get(e, "estimated", NA), status |-> Get(e, "status", NA)]

\* lines 254-277: the record built from one provider entry
FlightInfo(flight) ==
    LET flight_data == Get(flight, "flight", EmptyDict)
        departure == Get(flight, "departure", EmptyDict)
        arrival == Get(flight, "arrival", EmptyDict)
        airline == Get(flight, "airline", EmptyDict)
    IN  [flight_number |-> Get(flight_data, "iata", NA),
         airline |-> Get(airline, "name", NA),
         departure |-> Endpoint(departure),
         arrival |-> Endpoint(arrival),
         flight_status |-> Get(flight, "flight_status", NA)]

\* an entry on which .get is called on a null sub-object (AttributeError)
EntryFails(flight) ==
    \E k \in {"flight", "departure", "arrival", "airline"} :
        k \in DOMAIN flight /\ flight[k] = None

\* lines 229-238: the request parameters; a truthy non-str value of an
\* uppercased field has no .upper() and raises AttributeError
ParamFields ==
    <<[arg |-> "flight_number", param |-> "flight_iata", upper |-> FALSE],
      [arg |-> "dep_iata", param |-> "dep_iata", upper |-> TRUE],
      [arg |-> "arr_iata", param |-> "arr_iata", upper |-> TRUE],
      [arg |-> "flight_date", param |-> "flight_date", upper |-> FALSE],
      [arg |-> "airline_iata", param |-> "airline_iata", upper |-> TRUE]>>

UpperRaises(q) ==
    \E i \in 1..Len(ParamFields) :
        /\ ParamFields[i].upper
        /\ Truthy(q[ParamFields[i].arg])
        /\ q[ParamFields[i].arg].t # "str"

\* the request parameters with every value sent as given
BuildParams_NoUpper(q, api_key) ==
    LET present == {i \in 1..Len(ParamFields) : Truthy(q[ParamFields[i].arg])}
        keys == {"access_key"} \cup {ParamFields[i].param : i \in present}
        FieldOf(k) == CHOOSE i \in present : ParamFields[i].param = k
    IN  [k \in keys |->
            IF k = "access_key" THEN api_key.v
            ELSE q[ParamFields[FieldOf(k)].arg].v]

BuildParams(q, api_key) ==
    LET present == {i \in 1..Len(ParamFields) : Truthy(q[ParamFields[i].arg])}
        keys == {"access_key"} \cup {ParamFields[i].param : i \in present}
        FieldOf(k) == CHOOSE i \in present : ParamFields[i].param = k
    IN  [k \in keys |->
            IF k = "access_key" THEN api_key.v
            ELSE LET f == ParamFields[FieldOf(k)]
                 IN  IF f.upper THEN Upper(q[f.arg].v) ELSE q[f.arg].v]

\* the body turned into text without the slice of line 253
BodyText_NoLimit(data) ==
    LET error == Get(data, "error", None)
        flights == Get(data, "data", << >>)
    IN  IF error # None /\ error # EmptyDict
        THEN <<"API Error: ">> \o Get(error, "info", <<"Unknown error">>)
        ELSE IF flights = << >>
        THEN NoFlightsMessage
        ELSE IF \E i \in 1..Len(flights) : EntryFails(flights[i])
        THEN <<"Unexpected error: ",
               "'NoneType' object has no attribute 'get'">>
        ELSE json_dumps([i \in 1..Len(flights) |-> FlightInfo(flights[i])])

\* the body turned into text without the test of lines 248-250
BodyText_EmptyArray(data) ==
    LET error == Get(data, "error", None)
        flights == Get(data, "data", << >>)
        shown == SubSeq(flights, 1, Min(MaxFlights, Len(flights)))
    IN  IF error # None /\ error # EmptyDict
        THEN <<"API Error: ">> \o Get(error, "info", <<"Unknown error">>)
        ELSE IF \E i \in 1..Len(shown) : EntryFails(shown[i])
        THEN <<"Unexpected error: ",
               "'NoneType' object has no attribute 'get'">>
        ELSE json_dumps([i \in 1..Len(shown) |-> FlightInfo(shown[i])])

\* lines 243-280: the body of a successful response turned into text
BodyText(data) ==
    LET error == Get(data, "error", None)
        flights == Get(data, "data", << >>)
        shown == SubSeq(flights, 1, Min(MaxFlights, Len(flights)))
    IN  IF error # None /\ error # EmptyDict
        THEN <<"API Error: ">> \o Get(error, "info", <<"Unknown error">>)
        ELSE IF flights = << >>
        THEN NoFlightsMessage
        ELSE IF \E i \in 1..Len(shown) : EntryFails(shown[i])
        THEN <<"Unexpected error: ",
               "'NoneType' object has no attribute 'get'">>
        ELSE json_dumps([i \in 1..Len(shown) |-> FlightInfo(shown[i])])

\* search_flights repeating once a request that raised
search_flights_Retry(q, api_key, http) ==
    IF ~Truthy(api_key)
    THEN [raised |-> FALSE, text |-> NoKeyMessage, requests |-> << >>]
    ELSE IF UpperRaises(q)
    THEN [raised |-> TRUE, text |-> <<"AttributeError">>, requests |-> << >>]
    ELSE LET params == BuildParams(q, api_key)
         IN  IF http.kind = "exception"
             THEN [raised |-> FALSE,
                   text |-> IF http.request_exc
                            THEN <<"Error fetching flight data: ">> \o http.msg
                            ELSE <<"Unexpected error: ">> \o http.msg,
                   requests |-> <<params, params>>]
             ELSE [raised |-> FALSE, text |-> BodyText(http.body),
                   requests |-> <<params>>]

\* search_flights letting an exception of the HTTP exchange escape
search_flights_Reraise(q, api_key, http) ==
    IF ~Truthy(api_key)
    THEN [raised |-> FALSE, text |-> NoKeyMessage, requests |-> << >>]
    ELSE IF UpperRaises(q)
    THEN [raised |-> TRUE, text |-> <<"AttributeError">>, requests |-> << >>]
    ELSE IF http.kind = "exception"
    THEN [raised |-> TRUE, text |-> http.msg,
          requests |-> <<BuildParams(q, api_key)>>]
    ELSE [raised |-> FALSE, text |-> BodyText(http.body),
          requests |-> <<BuildParams(q, api_key)>>]

\* search_flights without the test of lines 223-224
search_flights_NoKeyCheck(q, api_key, http) ==
    IF UpperRaises(q)
    THEN [raised |-> TRUE, text |-> <<"AttributeError">>, requests |-> << >>]
    ELSE IF http.kind = "exception"
    THEN [raised |-> FALSE,
          text |-> <<"Error fetching flight data: ">> \o http.msg,
          requests |-> <<BuildParams(q, api_key)>>]
    ELSE [raised |-> FALSE, text |-> BodyText(http.body),
          requests |-> <<BuildParams(q, api_key)>>]

\* search_flights(q) with CLIENTSECRET = api_key, when the HTTP exchange
\* (requests.get, raise_for_status, response.json) has outcome http.
\* raised: an exception leaves the function; text: the returned string;
\* requests: the HTTP requests issued.
search_flights(q, api_key, http) ==
    IF ~Truthy(api_key)
    THEN [raised |-> FALSE, text |-> NoKeyMessage, requests |-> << >>]
    ELSE IF UpperRaises(q)
    THEN [raised |-> TRUE, text |-> <<"AttributeError">>, requests |-> << >>]
    ELSE LET params == BuildParams(q, api_key)
         IN  IF http.kind = "exception"
             THEN [raised |-> FALSE,
                   text |-> IF http.request_exc
                            THEN <<"Error fetching flight data: ">> \o http.msg
                            ELSE <<"Unexpected error: ">> \o http.msg,
                   requests |-> <<params>>]
             ELSE [raised |-> FALSE, text |-> BodyText(http.body),
                   requests |-> <<params>>]

\* ------------------------------------------------------- program constants
max_iterations == 5

SYSTEM_MESSAGE ==
    <<"You are a friendly and helpful AI flight booking assistant. ...">>

ApologyMessage ==
    <<"I apologize, but I'm having trouble processing your request. Please try again.">>

\* ------------------------------------------------- inputs of the environment
Prompts == {<<"Status of flight AA100">>}

Key == Str(<<"key">>)

\* os.environ as _inject_secrets and load_dotenv leave it
Environments ==
    {[OPENROUTER_API_KEY |-> Key, CLIENTSECRET |-> Key],
     [OPENROUTER_API_KEY |-> Key, CLIENTSECRET |-> None],
     [OPENROUTER_API_KEY |-> None, CLIENTSECRET |-> None]}

AnswerText == <<"AA100 is on time">>

Contents == {None, Str(AnswerText)}

ArgsAA100 == <<LBrace, TStr("flight_number"), Colon, TStr("AA100"), RBrace>>
ArgsRoute ==
    <<LBrace, TStr("dep_iata"), Colon, TStr("jfk"), Comma,
      TStr("arr_iata"), Colon, TStr("LAX"), RBrace>>
ArgsTruncated == <<LBrace, TStr("dep_iata"), Colon>>
ArgsList == <<LBrack, RBrack>>
ArgsNumber == <<LBrace, TStr("dep_iata"), Colon, TNum("5"), RBrace>>

Fn(name, arguments) == [name |-> name, arguments |-> arguments]

SearchAA100 == Fn("search_flights", ArgsAA100)
BookFlight == Fn("book_flight", <<LBrace, RBrace>>)

SearchRoute == Fn("search_flights", ArgsRoute)

\* the responses with tool calls the model draws from: text content and
\* the function parts of the tool calls
Requests(content, fns) == [content |-> content, fns |-> fns]

ToolResponses ==
    {Requests(None, <<SearchAA100>>),
     Requests(Str(AnswerText), <<SearchAA100, SearchRoute>>),
     Requests(None, <<BookFlight, SearchAA100>>),
     Requests(None, <<SearchAA100, Fn("search_flights", ArgsTruncated)>>),
     Requests(None, <<Fn("search_flights", ArgsList)>>),
     Requests(None, <<Fn("search_flights", ArgsNumber)>>)}

\* the provider's message object: ids are assigned by the provider, one per
\* tool call, distinct within the turn
Response(content, fns, round) ==
    [role |-> "assistant", content |-> content,
     tool_calls |-> [i \in 1..Len(fns) |->
                        [id |-> <<"call", round, i>>, type |-> "function",
                         function |-> fns[i]]]]

HttpException(is_request_exc, msg) ==
    [kind |-> "exception", request_exc |-> is_request_exc, msg |-> msg,
     body |-> EmptyDict]

HttpBody(body) ==
    [kind |-> "ok", request_exc |-> FALSE, msg |-> << >>, body |-> body]

EntryAA100 ==
    [flight |-> [iata |-> Str(<<"AA100">>)],
     airline |-> [name |-> Str(<<"American Airlines">>)],
     departure |-> [airport |-> Str(<<"John F Kennedy International">>),
                    iata |-> Str(<<"JFK">>), estimated |-> None],
     flight_status |-> Str(<<"active">>)]

Timeout == HttpException(TRUE, <<"Read timed out. (read timeout=10)">>)
ConnectionFailed == HttpException(TRUE, <<"Connection refused">>)
HttpStatusError == HttpException(TRUE, <<"500 Server Error">>)
ProviderError == HttpBody([error |-> [info |-> <<"Invalid access key">>]])
NoFlights == HttpBody([data |-> << >>])
OneFlight == HttpBody([data |-> <<EntryAA100>>])

\* what the flight provider does with the requests of one turn
HttpOutcomes ==
    {Timeout, ConnectionFailed, HttpStatusError, ProviderError, NoFlights,
     OneFlight}

ProviderErrors == {<<"Error code: 429 - rate limited">>}

\* ------------------------------------------------------------------ state
VARIABLES
    env,               \* os.environ: OPENROUTER_API_KEY, CLIENTSECRET
    session_messages,  \* st.session_state.messages
    pc,                \* position of main / get_openai_response
    api_messages,      \* the list main passes to get_openai_response
    current_messages,  \* the working copy (line 319)
    iteration,         \* line 317
    assistant_message, \* line 318 / 329
    tc_index,          \* position of the for loop of handle_tool_calls
    responses,         \* the list handle_tool_calls builds
    outcome,           \* the value returned or the exception raised
    response_text,     \* main, lines 402-404
    calls,             \* chat-completion calls made in this turn
    tool_runs,         \* search_flights invocations in this turn
    http_log,          \* HTTP exchanges of this turn: parameters sent, outcome
    provider_failures, \* chat-completion calls of this turn that raised
    turns,             \* user turns started in this session
    session_calls,     \* chat-completion calls made in this session
    flight_api,        \* outcome of the HTTP exchanges of this turn
    last_sent,         \* the messages of the latest chat-completion call
    lookups            \* direct calls of search_flights: input and result

vars ==
    <<env, session_messages, pc, api_messages, current_messages, iteration,
      assistant_message, tc_index, responses, outcome, response_text, calls,
      tool_runs, http_log, provider_failures, turns, session_calls,
      flight_api, last_sent, lookups>>

Message(role, content) == [role |-> role, content |-> content]

NoOutcome == [kind |-> "none", text |-> << >>]
Returned(text) == [kind |-> "return", text |-> text]
Raised(text) == [kind |-> "raise", text |-> text]

Init ==
    /\ env \in Environments
    /\ session_messages = << >>
    /\ pc = "idle"
    /\ api_messages = << >>
    /\ current_messages = << >>
    /\ iteration = 0
    /\ assistant_message = None
    /\ tc_index = 0
    /\ responses = << >>
    /\ outcome = NoOutcome
    /\ response_text = << >>
    /\ calls = 0
    /\ tool_runs = 0
    /\ http_log = << >>
    /\ provider_failures = 0
    /\ turns = 0
    /\ session_calls = 0
    /\ flight_api = ConnectionFailed
    /\ last_sent = << >>
    /\ lookups = << >>

\* ---------------------------------------------------------------- helpers
\* the working copy taken without the first message of the input
ListCopy_DropsFirst(messages) ==
    [i \in 1..(Len(messages) - 1) |-> messages[i + 1]]

\* line 319: list(messages) is a new list with the same elements
ListCopy(messages) == [i \in 1..Len(messages) |-> messages[i]]

\* the list passed to get_openai_response without the system message
BuildApiMessages_NoSystem(history) ==
    [i \in 1..Len(history) |-> Message(history[i].role, history[i].content)]

\* lines 394-396: system message, then role and content of the history
BuildApiMessages(history) ==
    <<Message("system", SYSTEM_MESSAGE)>>
    \o [i \in 1..Len(history) |->
           Message(history[i].role, history[i].content)]

\* lines 331-346: the dict appended for an assistant response
AssistantDict(msg) ==
    IF msg.tool_calls # << >>
    THEN [role |-> msg.role, content |-> OrEmpty(msg.content),
          tool_calls |->
              [i \in 1..Len(msg.tool_calls) |->
                  [id |-> msg.tool_calls[i].id,
                   type |-> msg.tool_calls[i].type,
                   function |->
                       [name |-> msg.tool_calls[i].function.name,
                        arguments |-> msg.tool_calls[i].function.arguments]]]]
    ELSE [role |-> msg.role, content |-> OrEmpty(msg.content)]

\* line 355 returning the apology for an empty content
FinalText_Apology(msg) ==
    IF Truthy(msg.content) THEN msg.content.v ELSE ApologyMessage

\* line 355: the value returned for a response without tool calls
FinalText(msg) == OrEmpty(msg.content)

\* lines 357-361 without the fallback string
FallbackText_NoApology(msg) ==
    IF msg # None THEN OrEmpty(msg.content) ELSE ApologyMessage

\* lines 357-361: the value returned when the while loop runs out
FallbackText(msg) ==
    IF msg # None /\ Truthy(msg.content) THEN msg.content.v
    ELSE ApologyMessage

\* line 321 with an off-by-one bound
LoopContinues_OffByOne(it) == it <= max_iterations

\* line 321: the while condition
LoopContinues(it) == it < max_iterations

\* the counter incremented in every round
IterationAfterRound_EveryRound(it, has_tool_calls) == it + 1

\* lines 350-355: the counter after a round; only the tool branch counts
IterationAfterRound(it, has_tool_calls) ==
    IF has_tool_calls THEN it + 1 ELSE it

\* the tool message carrying a fixed id instead of the id of its tool call
ToolMessage_WrongId(tool_call, text) ==
    [role |-> "tool", content |-> text, tool_call_id |-> <<"call", 0, 0>>]

\* lines 301-305: the tool message answering one tool call
ToolMessage(tool_call, text) ==
    [role |-> "tool", content |-> text, tool_call_id |-> tool_call.id]

\* lines 295-299: the keyword arguments taken from the parsed object
Query(arguments) ==
    [k \in {"flight_number", "dep_iata", "arr_iata", "flight_date",
            "airline_iata"} |-> Get(arguments, k, None)]

\* the body of the for loop with a tool message for every tool call: an
\* unknown name is answered with an error text
ToolStep_AnswerUnknown(tool_call, api_key, http) ==
    IF tool_call.function.name # "search_flights"
    THEN [kind |-> "append", text |-> <<"Error: unknown tool">>,
          ran |-> FALSE, requests |-> << >>]
    ELSE LET parsed == json_loads(tool_call.function.arguments)
         IN  IF parsed.kind = "error"
             THEN [kind |-> "raise", text |-> <<"JSONDecodeError">>,
                   ran |-> FALSE, requests |-> << >>]
             ELSE IF parsed.kind = "other"
             THEN [kind |-> "raise", text |-> <<"AttributeError">>,
                   ran |-> FALSE, requests |-> << >>]
             ELSE LET r == search_flights(Query(parsed.d), api_key, http)
                  IN  [kind |-> IF r.raised THEN "raise" ELSE "append",
                       text |-> r.text, ran |-> TRUE,
                       requests |-> r.requests]

\* lines 292-305: the body of the for loop of handle_tool_calls for one
\* tool call.  kind "skip": nothing appended; "raise": an exception leaves
\* handle_tool_calls; "append": text is the content of the tool message.
ToolStep(tool_call, api_key, http) ==
    IF tool_call.function.name # "search_flights"
    THEN [kind |-> "skip", text |-> << >>, ran |-> FALSE, requests |-> << >>]
    ELSE LET parsed == json_loads(tool_call.function.arguments)
         IN  IF parsed.kind = "error"
             THEN [kind |-> "raise", text |-> <<"JSONDecodeError">>,
                   ran |-> FALSE, requests |-> << >>]
             ELSE IF parsed.kind = "other"
             THEN [kind |-> "raise", text |-> <<"AttributeError">>,
                   ran |-> FALSE, requests |-> << >>]
             ELSE LET r == search_flights(Query(parsed.d), api_key, http)
                  IN  [kind |-> IF r.raised THEN "raise" ELSE "append",
                       text |-> r.text, ran |-> TRUE,
                       requests |-> r.requests]

\* lines 403-404: the text main shows for the turn
ResponseText(o) ==
    IF o.kind = "return" THEN o.text
    ELSE <<"Sorry, an error occurred: ">> \o o.text

\* ---------------------------------------------------------------- actions
\* main, lines 386-402, and get_openai_response up to the while loop
\* (lines 311-319).  client_ok is FALSE when the OpenAI constructor rejects
\* a missing key.
UserTurn(prompt, client_ok, http) ==
    /\ pc = "idle"
    /\ turns < MaxTurns
    /\ client_ok \/ ~Truthy(env.OPENROUTER_API_KEY)
    /\ Truthy(env.CLIENTSECRET) \/ http = ConnectionFailed
    /\ flight_api' = http
    /\ LET history == Append(session_messages, Message("user", prompt))
           api == BuildApiMessages(history)
       IN  /\ session_messages' = history
           /\ api_messages' = api
           /\ current_messages' = ListCopy(api)
    /\ iteration' = 0
    /\ assistant_message' = None
    /\ tc_index' = 0
    /\ responses' = << >>
    /\ response_text' = << >>
    /\ calls' = 0
    /\ tool_runs' = 0
    /\ http_log' = << >>
    /\ provider_failures' = 0
    /\ turns' = turns + 1
    /\ IF client_ok
       THEN pc' = "loop" /\ outcome' = NoOutcome
       ELSE pc' = "raised" /\ outcome' = Raised(<<"OpenAIError: api_key">>)
    /\ last_sent' = << >>
    /\ UNCHANGED <<env, session_calls, lookups>>

\* the assistant message appended to the list of the caller as well
ProviderResponds_AppendsToInput(content, fns) ==
    /\ pc = "loop"
    /\ session_calls < MaxSessionCalls
    /\ LET msg == Response(content, fns, calls + 1)
           has_tool_calls == msg.tool_calls # << >>
       IN  /\ assistant_message' = msg
           /\ current_messages' = Append(current_messages, AssistantDict(msg))
           /\ api_messages' = Append(api_messages, AssistantDict(msg))
           /\ iteration' = IterationAfterRound(iteration, FALSE)
           /\ IF has_tool_calls
              THEN /\ pc' = "tools"
                   /\ tc_index' = 1
                   /\ responses' = << >>
                   /\ outcome' = outcome
              ELSE /\ pc' = "returned"
                   /\ outcome' = Returned(FinalText(msg))
                   /\ UNCHANGED <<tc_index, responses>>
    /\ calls' = calls + 1
    /\ session_calls' = session_calls + 1
    /\ last_sent' = current_messages
    /\ UNCHANGED <<env, session_messages, response_text,
                   tool_runs, http_log, provider_failures, turns,
                   flight_api, lookups>>

\* lines 322-348 and, for a response without tool calls, line 355
ProviderResponds(content, fns) ==
    /\ pc = "loop"
    /\ session_calls < MaxSessionCalls
    /\ LET msg == Response(content, fns, calls + 1)
           has_tool_calls == msg.tool_calls # << >>
       IN  /\ assistant_message' = msg
           /\ current_messages' = Append(current_messages, AssistantDict(msg))
           /\ iteration' = IterationAfterRound(iteration, FALSE)
           /\ IF has_tool_calls
              THEN /\ pc' = "tools"
                   /\ tc_index' = 1
                   /\ responses' = << >>
                   /\ outcome' = outcome
              ELSE /\ pc' = "returned"
                   /\ outcome' = Returned(FinalText(msg))
                   /\ UNCHANGED <<tc_index, responses>>
    /\ calls' = calls + 1
    /\ session_calls' = session_calls + 1
    /\ last_sent' = current_messages
    /\ UNCHANGED <<env, session_messages, api_messages, response_text,
                   tool_runs, http_log, provider_failures, turns,
                   flight_api, lookups>>

\* line 322 raising, caught inside the loop, which tries again
ProviderFails_Retry(err) ==
    /\ pc = "loop"
    /\ calls' = calls + 1
    /\ provider_failures' = provider_failures + 1
    /\ session_calls' = Min(MaxSessionCalls, session_calls + 1)
    /\ last_sent' = current_messages
    /\ UNCHANGED <<env, session_messages, pc, api_messages, current_messages,
                   iteration, assistant_message, tc_index, responses, outcome,
                   response_text, tool_runs, http_log, turns, flight_api,
                   lookups>>

\* line 322 raising: the exception leaves get_openai_response
ProviderFails(err) ==
    /\ pc = "loop"
    /\ calls' = calls + 1
    /\ provider_failures' = provider_failures + 1
    /\ session_calls' = Min(MaxSessionCalls, session_calls + 1)
    /\ last_sent' = current_messages
    /\ pc' = "raised"
    /\ outcome' = Raised(err)
    /\ UNCHANGED <<env, session_messages, api_messages, current_messages,
                   iteration, assistant_message, tc_index, responses,
                   response_text, tool_runs, http_log, turns, flight_api,
                   lookups>>

\* one pass of the for loop of handle_tool_calls (lines 291-305); after the
\* last tool call, lines 306 and 352-353, the while test and lines 357-361
HandleToolCall ==
    /\ pc = "tools"
    /\ LET tool_calls == assistant_message.tool_calls
           step == ToolStep(tool_calls[tc_index], env.CLIENTSECRET, flight_api)
           built == IF step.kind = "append"
                    THEN Append(responses,
                                ToolMessage(tool_calls[tc_index], step.text))
                    ELSE responses
           it == IterationAfterRound(iteration, TRUE)
       IN  /\ tool_runs' = tool_runs + (IF step.ran THEN 1 ELSE 0)
           /\ http_log' =
                  http_log \o [i \in 1..Len(step.requests) |->
                                  [params |-> step.requests[i],
                                   outcome |-> flight_api]]
           /\ IF step.kind = "raise"
              THEN /\ pc' = "raised"
                   /\ outcome' = Raised(step.text)
                   /\ UNCHANGED <<current_messages, iteration, tc_index,
                                  responses>>
              ELSE IF tc_index < Len(tool_calls)
              THEN /\ tc_index' = tc_index + 1
                   /\ responses' = built
                   /\ UNCHANGED <<pc, outcome, current_messages, iteration>>
              ELSE /\ responses' = built
                   /\ tc_index' = 0
                   /\ current_messages' = current_messages \o built
                   /\ iteration' = it
                   /\ IF LoopContinues(it)
                      THEN pc' = "loop" /\ outcome' = outcome
                      ELSE /\ pc' = "returned"
                           /\ outcome' =
                                  Returned(FallbackText(assistant_message))
    /\ UNCHANGED <<env, session_messages, api_messages, assistant_message,
                   response_text, calls, provider_failures, turns,
                   session_calls, flight_api, last_sent, lookups>>

\* main without the try/except of lines 401-404
MainFinish_Uncaught ==
    /\ pc \in {"returned", "raised"}
    /\ IF pc = "raised"
       THEN /\ pc' = "crashed"
            /\ UNCHANGED <<response_text, session_messages>>
       ELSE /\ pc' = "idle"
            /\ response_text' = outcome.text
            /\ session_messages' =
                   Append(session_messages, Message("assistant", outcome.text))
    /\ UNCHANGED <<env, api_messages, current_messages, iteration,
                   assistant_message, tc_index, responses, outcome, calls,
                   tool_runs, http_log, provider_failures, turns,
                   session_calls, flight_api, last_sent, lookups>>

\* main, lines 403-407
MainFinish ==
    /\ pc \in {"returned", "raised"}
    /\ response_text' = ResponseText(outcome)
    /\ session_messages' =
           Append(session_messages, Message("assistant", ResponseText(outcome)))
    /\ pc' = "idle"
    /\ UNCHANGED <<env, api_messages, current_messages, iteration,
                   assistant_message, tc_index, responses, outcome, calls,
                   tool_runs, http_log, provider_failures, turns,
                   session_calls, flight_api, last_sent, lookups>>

Next ==
    \/ \E prompt \in Prompts, client_ok \in BOOLEAN, http \in HttpOutcomes :
           UserTurn(prompt, client_ok, http)
    \/ \E content \in Contents : ProviderResponds(content, << >>)
    \/ \E r \in ToolResponses : ProviderResponds(r.content, r.fns)
    \/ \E err \in ProviderErrors : ProviderFails(err)
    \/ HandleToolCall
    \/ MainFinish

Spec == Init /\ [][Next]_vars

\* ------------------------------------------------- vocabulary of the claims
\* positions of this turn's messages in the working conversation
TurnPositions == (Len(api_messages) + 1)..Len(current_messages)

IsAssistant(m) == m.role = "assistant"
IsTool(m) == m.role = "tool"
HasToolCalls(m) == "tool_calls" \in DOMAIN m

\* the assistant message of the latest round
LastAssistantPos ==
    CHOOSE i \in TurnPositions :
        /\ IsAssistant(current_messages[i])
        /\ \A j \in TurnPositions : j > i => ~IsAssistant(current_messages[j])

InLoop == pc \in {"loop", "tools"}
Finished == pc \in {"returned", "raised"}

\* the tool call handle_tool_calls is about to process
CurrentToolCall == assistant_message.tool_calls[tc_index]

\* C1: for every assistant response with N tool calls, exactly N tool
\* messages are in the working conversation before the next provider call,
\* the i-th carrying the id of the i-th tool call.
C1_EveryToolCallAnswered ==
    (pc = "loop" /\ calls > 0) =>
        LET k == LastAssistantPos
            tool_calls == current_messages[k].tool_calls
        IN  /\ Len(current_messages) - k = Len(tool_calls)
            /\ \A i \in 1..Len(tool_calls) :
                   /\ k + i <= Len(current_messages)
                   /\ IsTool(current_messages[k + i])
                   /\ current_messages[k + i].tool_call_id = tool_calls[i].id

\* C2: when the arguments text of a search_flights tool call does not parse
\* as a JSON object, the step does not abort get_openai_response: a tool
\* message is built for the call and the loop goes on.
C2_MalformedArgumentsDoNotAbort ==
    [][(/\ pc = "tools"
        /\ CurrentToolCall.function.name = "search_flights"
        /\ json_loads(CurrentToolCall.function.arguments).kind # "dict")
       => (/\ pc' \in {"tools", "loop", "returned"}
           /\ outcome'.kind # "raise"
           /\ Len(responses') = Len(responses) + 1)]_vars

\* the variant of the loop: rounds left, then the provider call of the
\* round, then the tool calls left in the round
Variant ==
    <<max_iterations - iteration,
      IF pc = "loop" THEN 1 ELSE 0,
      IF pc = "tools" THEN Len(assistant_message.tool_calls) - tc_index + 1
      ELSE 0>>

LexLess(a, b) ==
    \/ a[1] < b[1]
    \/ a[1] = b[1] /\ a[2] < b[2]
    \/ a[1] = b[1] /\ a[2] = b[2] /\ a[3] < b[3]

\* C3: one call of get_openai_response makes at most 5 chat-completion
\* calls and then ends: every step inside the loop (a provider call that
\* answers or raises, a tool call that is handled) either leaves the
\* function by return or raise, or decreases a variant of natural numbers,
\* so no run of the loop is infinite.
C3_AtMostFiveCallsAndTerminates ==
    /\ [](calls <= 5)
    /\ [](pc = "loop" => calls < 5)
    /\ [](InLoop => /\ \A i \in 1..3 : Variant[i] \in Nat
                    /\ Variant[1] >= 1
                    /\ pc = "tools" =>
                           tc_index \in 1..Len(assistant_message.tool_calls))
    /\ [][InLoop => \/ Finished'
                    \/ InLoop' /\ LexLess(Variant', Variant)]_vars

C3_Witness ==
    /\ pc = "returned"
    /\ calls = 5
    /\ Len(assistant_message.tool_calls) = 2

C5_PlainFirstResponse ==
    (/\ Len(current_messages) > Len(api_messages)
     /\ ~HasToolCalls(current_messages[Len(api_messages) + 1])) =>
        /\ pc \in {"returned", "idle"}
        /\ calls = 1
        /\ Len(current_messages) = Len(api_messages) + 1
        /\ outcome.kind = "return"
        /\ outcome.text = IF assistant_message.content = None THEN << >>
                          ELSE assistant_message.content.v
        /\ tool_runs = 0
        /\ http_log = << >>

C5_Witness ==
    /\ pc = "returned"
    /\ calls = 1
    /\ assistant_message.content = None
    /\ assistant_message.tool_calls = << >>
    /\ outcome = Returned(<< >>)

\* the turn of C6: one search_flights tool call, answered, then a response
\* without tool calls
C6_Scenario ==
    /\ pc = "returned"
    /\ Len(current_messages) = Len(api_messages) + 3
    /\ LET first == current_messages[Len(api_messages) + 1]
           second == current_messages[Len(api_messages) + 3]
       IN  /\ HasToolCalls(first)
           /\ Len(first.tool_calls) = 1
           /\ first.tool_calls[1].function.name = "search_flights"
           /\ IsTool(current_messages[Len(api_messages) + 2])
           /\ IsAssistant(second)
           /\ ~HasToolCalls(second)

\* C6 as stated: in that turn the function returns the second response's
\* text and the iteration counter at return is 2.
C6_Original ==
    C6_Scenario =>
        /\ outcome = Returned(current_messages[Len(current_messages)].content)
        /\ iteration = 2

\* C6 amended: in that turn the function returns the second response's text
\* after exactly 2 provider calls, and the iteration counter at return is 1:
\* the counter counts the rounds that requested tools, not the final round.
C6_TwoCallsOneIteration ==
    C6_Scenario =>
        /\ outcome = Returned(current_messages[Len(current_messages)].content)
        /\ outcome.text = IF assistant_message.content = None THEN << >>
                          ELSE assistant_message.content.v
        /\ calls = 2
        /\ iteration = 1

C6_Witness ==
    /\ C6_Scenario
    /\ outcome = Returned(AnswerText)
    /\ Contains(current_messages[Len(api_messages) + 2].content, "AA100")

\* C7: a failed chat-completion call ends the work of the turn: it is the
\* only failure of the turn, the exception is what get_openai_response
\* hands to its caller, and until the next turn no provider call is made, no
\* tool runs and the working conversation does not change.
C7_ProviderFailureIsFatal ==
    /\ [](provider_failures > 0 =>
              /\ provider_failures = 1
              /\ pc \in {"raised", "idle"}
              /\ outcome.kind = "raise"
              /\ outcome.text \in ProviderErrors)
    /\ [][(provider_failures > 0 /\ provider_failures' > 0) =>
              /\ calls' = calls
              /\ tool_runs' = tool_runs
              /\ http_log' = http_log
              /\ current_messages' = current_messages
              /\ outcome' = outcome]_vars

C7_Witness ==
    /\ pc = "raised"
    /\ provider_failures = 1
    /\ calls = 3
    /\ tool_runs >= 2

\* C8: when get_openai_response has raised, main catches the exception:
\* the text "Sorry, an error occurred: ..." becomes the turn's assistant
\* text and is appended to the session history, and main is back where it
\* accepts the next prompt; main is never anywhere else.
C8_MainSurvivesFailure ==
    /\ [](pc \in {"idle", "loop", "tools", "returned", "raised"})
    /\ [][pc = "raised" =>
              /\ pc' = "idle"
              /\ response_text' = <<"Sorry, an error occurred: ">> \o outcome.text
              /\ session_messages' =
                     Append(session_messages,
                            [role |-> "assistant", content |-> response_text'])
              /\ turns' = turns]_vars

\* a second turn is running after a first turn that failed
C8_Witness ==
    /\ turns = 2
    /\ pc = "tools"
    /\ Len(session_messages) = 3
    /\ session_messages[2].role = "assistant"
    /\ session_messages[2].content[1] = "Sorry, an error occurred: "

\* a failed flight lookup: the exchange raised, or the body reports an error
IsLookupFailure(http) ==
    \/ http.kind = "exception"
    \/ http.kind = "ok" /\ "error" \in DOMAIN http.body

FailureDescription(http) ==
    IF http.kind = "exception" THEN http.msg ELSE http.body.error.info

\* the loop after the tool call at tc_index was answered with message m
AnsweredAndGoesOn(m) ==
    /\ pc' \in {"tools", "loop", "returned"}
    /\ outcome'.kind # "raise"
    /\ responses' = Append(responses, m)
    /\ m.role = "tool"
    /\ m.tool_call_id = CurrentToolCall.id
    /\ tc_index < Len(assistant_message.tool_calls) => pc' = "tools"
    /\ tc_index = Len(assistant_message.tool_calls) =>
           /\ current_messages' = current_messages \o responses'
           /\ pc' = IF iteration' < 5 THEN "loop" ELSE "returned"

\* C9: a flight lookup that fails (timeout, connection error, non-success
\* status, error object in the body) never raises: its description comes
\* back as text in an ordinary tool message, and the loop goes on to its next
\* provider call (to its return when the 5 rounds are used up).
C9_LookupFailuresAreText ==
    [][(/\ pc = "tools"
        /\ Len(http_log') = Len(http_log) + 1
        /\ IsLookupFailure(http_log'[Len(http_log')].outcome))
       => LET http == http_log'[Len(http_log')].outcome
              m == responses'[Len(responses')]
          IN  /\ Len(responses') = Len(responses) + 1
              /\ AnsweredAndGoesOn(m)
              /\ m.content \in
                     {prefix \o FailureDescription(http) :
                         prefix \in {<<"Error fetching flight data: ">>,
                                     <<"API Error: ">>}}]_vars

\* the next provider call was made after a lookup that timed out
C9_Witness ==
    /\ calls = 2
    /\ http_log # << >>
    /\ http_log[1].outcome = Timeout
    /\ \E i \in TurnPositions :
           /\ IsTool(current_messages[i])
           /\ current_messages[i].content =
                  <<"Error fetching flight data: ">> \o Timeout.msg

\* C10: without CLIENTSECRET no HTTP request is ever issued, and every run
\* of search_flights, whatever the query, is answered by a tool message
\* whose text contains "CLIENTSECRET"; the run raises nothing and the loop
\* goes on.
C10_MissingFlightKeyIsText ==
    /\ [](~Truthy(env.CLIENTSECRET) => http_log = << >>)
    /\ [][(/\ pc = "tools"
           /\ ~Truthy(env.CLIENTSECRET)
           /\ tool_runs' = tool_runs + 1)
          => /\ Len(responses') = Len(responses) + 1
             /\ AnsweredAndGoesOn(responses'[Len(responses')])
             /\ Contains(responses'[Len(responses')].content, "CLIENTSECRET")
             /\ http_log' = http_log]_vars

\* the model was called again with the text in the conversation
C10_Witness ==
    /\ ~Truthy(env.CLIENTSECRET)
    /\ calls = 2
    /\ tool_runs = 2
    /\ Cardinality({i \in TurnPositions :
                       /\ IsTool(current_messages[i])
                       /\ Contains(current_messages[i].content,
                                   "CLIENTSECRET")}) = 2

\* ------------------------------------------- search_flights called directly
\* longest result list the flight provider returns
MaxEntries == 6

EntryDL200 ==
    [flight |-> [iata |-> Str(<<"DL200">>)],
     airline |-> [name |-> Str(<<"Delta Air Lines">>)],
     departure |-> [airport |-> Str(<<"Los Angeles International">>),
                    iata |-> Str(<<"LAX">>),
                    scheduled |-> Str(<<"2024-01-15T08:00">>),
                    estimated |-> Str(<<"2024-01-15T08:10">>),
                    status |-> Str(<<"departed">>)],
     arrival |-> [airport |-> Str(<<"John F Kennedy International">>),
                  iata |-> Str(<<"JFK">>),
                  scheduled |-> Str(<<"2024-01-15T16:30">>),
                  estimated |-> Str(<<"2024-01-15T16:45">>),
                  status |-> Str(<<"en route">>)],
     flight_status |-> Str(<<"active">>)]

\* an entry of the result list that supplies nothing
EntryEmpty == EmptyDict

\* an entry whose departure object is null
EntryNullDeparture ==
    [flight |-> [iata |-> Str(<<"UA300">>)], departure |-> None]

\* the entries the result lists are drawn from
LookupEntries == {EntryAA100, EntryEmpty, EntryNullDeparture}

\* the result lists of at most MaxEntries entries
ResultLists == UNION {[1..n -> LookupEntries] : n \in 0..MaxEntries}

\* the queries: every field absent, empty or given in lower case
LookupQueries ==
    [flight_number : {None, Str(<< >>), Str(<<"aa100">>)},
     dep_iata : {None, Str(<< >>), Str(<<"jfk">>)},
     arr_iata : {None, Str(<< >>), Str(<<"lax">>)},
     flight_date : {None, Str(<< >>), Str(<<"2024-01-15">>)},
     airline_iata : {None, Str(<< >>), Str(<<"aa">>)}]

QueryAA100 == Query(json_loads(ArgsAA100).d)

\* bodies without a result list, and with an error object next to one
NoDataKey == HttpBody(EmptyDict)
ErrorAndNoFlights ==
    HttpBody([error |-> [info |-> <<"Invalid access key">>], data |-> << >>])

\* a result list whose first entry supplies every value
TwoFlights == HttpBody([data |-> <<EntryDL200, EntryAA100>>])

LookupInput(q, http) == [q |-> q, http |-> http]

\* the calls of search_flights(q) and the HTTP exchange each one meets
LookupInputs ==
    {LookupInput(q, OneFlight) : q \in LookupQueries}
    \cup {LookupInput(QueryAA100, HttpBody([data |-> l])) : l \in ResultLists}
    \cup {LookupInput(QueryAA100, http) :
              http \in HttpOutcomes
                       \cup {NoDataKey, ErrorAndNoFlights, TwoFlights}}

\* search_flights (lines 214-285) called once, outside a chat turn
DirectLookup(in) ==
    /\ pc = "idle"
    /\ turns = 0
    /\ lookups = << >>
    /\ lookups' =
           <<[q |-> in.q, http |-> in.http,
              result |-> search_flights(in.q, env.CLIENTSECRET, in.http)]>>
    /\ UNCHANGED <<env, session_messages, pc, api_messages, current_messages,
                   iteration, assistant_message, tc_index, responses, outcome,
                   response_text, calls, tool_runs, http_log,
                   provider_failures, turns, session_calls, flight_api,
                   last_sent>>

LookupNext == \E in \in LookupInputs : DirectLookup(in)

LookupSpec == Init /\ [][LookupNext]_vars

\* ------------------------------------ vocabulary of the claims on lookups
Looked == lookups # << >>
TheLookup == lookups[1]

\* an HTTP exchange that succeeded and whose body reports no error
SuccessfulResponse(http) ==
    /\ http.kind = "ok"
    /\ ("error" \notin DOMAIN http.body
        \/ http.body.error \in {None, EmptyDict})

ResultList(http) ==
    IF "data" \in DOMAIN http.body THEN http.body.data ELSE << >>

\* the entries search_flights reads are objects all the way down
ReadableEntries(flights) ==
    \A i \in 1..Len(flights) :
        i <= 5 =>
            \A k \in {"flight", "airline", "departure", "arrival"} :
                k \in DOMAIN flights[i] => flights[i][k] # None

\* the lookup was made with a credential, the provider answered with a
\* result list of readable entries, and the list is not empty
ReturnsArray ==
    /\ Looked
    /\ Truthy(env.CLIENTSECRET)
    /\ SuccessfulResponse(TheLookup.http)
    /\ ResultList(TheLookup.http) # << >>
    /\ ReadableEntries(ResultList(TheLookup.http))

LeafKeys ==
    {"\"flight_number\": ", "\"airline\": ", "\"airport\": ", "\"iata\": ",
     "\"scheduled\": ", "\"estimated\": ", "\"status\": ",
     "\"flight_status\": "}

EndpointSkeleton ==
    <<"{", "\"airport\": ", "\"iata\": ", "\"scheduled\": ",
      "\"estimated\": ", "\"status\": ", "}">>

\* the text of one record with the values taken out
RecordSkeleton ==
    <<"{", "\"flight_number\": ", "\"airline\": ", "\"departure\": ">>
    \o EndpointSkeleton \o <<"\"arrival\": ">> \o EndpointSkeleton
    \o <<"\"flight_status\": ", "}">>

StructureFragments ==
    LeafKeys \cup {"[", "]", "{", "}", "\"departure\": ", "\"arrival\": "}

IsStructure(f) == f \in StructureFragments

Skeleton(text) == SelectSeq(text, IsStructure)

RECURSIVE Repeat(_, _)
Repeat(s, n) == IF n = 0 THEN << >> ELSE s \o Repeat(s, n - 1)

\* the value that follows the leaf key at position i of the text
ValueAfter(text, i) ==
    IF text[i + 1] = "null" THEN None
    ELSE IF text[i + 1] = "\""
    THEN LET close == CHOOSE k \in (i + 2)..Len(text) :
                          /\ text[k] = "\""
                          /\ \A j \in (i + 2)..(k - 1) : text[j] # "\""
         IN  Str(SubSeq(text, i + 2, close - 1))
    ELSE Num(<<text[i + 1]>>)

\* the values of the text that follow a key of the set keys, in text order
ValuesOf(text, keys) ==
    LET at == {i \in 1..(Len(text) - 1) : text[i] \in keys}
        Nth(k) == CHOOSE i \in at : Cardinality({j \in at : j < i}) = k - 1
    IN  [k \in 1..Cardinality(at) |-> ValueAfter(text, Nth(k))]

Values(text) == ValuesOf(text, LeafKeys)

FlightNumbers(text) == ValuesOf(text, {"\"flight_number\": "})

\* where the provider entry holds each value of a record, in record order
LeafPaths ==
    <<<<"flight", "iata">>, <<"airline", "name">>,
      <<"departure", "airport">>, <<"departure", "iata">>,
      <<"departure", "scheduled">>, <<"departure", "estimated">>,
      <<"departure", "status">>,
      <<"arrival", "airport">>, <<"arrival", "iata">>,
      <<"arrival", "scheduled">>, <<"arrival", "estimated">>,
      <<"arrival", "status">>,
      <<"flight_status">>>>

Supplies(entry, path) ==
    IF Len(path) = 1 THEN path[1] \in DOMAIN entry
    ELSE path[1] \in DOMAIN entry /\ path[2] \in DOMAIN entry[path[1]]

Supplied(entry, path) ==
    IF Len(path) = 1 THEN entry[path[1]] ELSE entry[path[1]][path[2]]

\* C11: whatever the number of entries of a successful provider response,
\* the array search_flights returns has min(number of entries, 5) records,
\* and they are the first entries of the provider's list in the provider's
\* order.
C11_FirstFiveInOrder ==
    ReturnsArray =>
        LET flights == ResultList(TheLookup.http)
            n == IF Len(flights) < 5 THEN Len(flights) ELSE 5
            text == TheLookup.result.text
        IN  /\ ~TheLookup.result.raised
            /\ Skeleton(text) = <<"[">> \o Repeat(RecordSkeleton, n) \o <<"]">>
            /\ FlightNumbers(text) =
                   [i \in 1..n |->
                       IF Supplies(flights[i], <<"flight", "iata">>)
                       THEN flights[i].flight.iata
                       ELSE Str(<<"N/A">>)]

\* six entries, the sixth unreadable, were cut to the first five
C11_Witness ==
    /\ ReturnsArray
    /\ ResultList(TheLookup.http) =
           <<EntryAA100, EntryEmpty, EntryEmpty, EntryAA100, EntryAA100,
             EntryNullDeparture>>
    /\ FlightNumbers(TheLookup.result.text) =
           <<Str(<<"AA100">>), Str(<<"N/A">>), Str(<<"N/A">>),
             Str(<<"AA100">>), Str(<<"AA100">>)>>

\* C12: for every provider response whose result list has no entry,
\* search_flights returns exactly the text "No flights found matching the
\* search criteria.".
C12_EmptyListIsNoFlights ==
    (/\ Looked
     /\ Truthy(env.CLIENTSECRET)
     /\ SuccessfulResponse(TheLookup.http)
     /\ ResultList(TheLookup.http) = << >>)
    => /\ ~TheLookup.result.raised
       /\ TheLookup.result.text =
              <<"No flights found matching the search criteria.">>

C12_Witness ==
    /\ Looked
    /\ Truthy(env.CLIENTSECRET)
    /\ TheLookup.http = NoFlights
    /\ TheLookup.result.text =
           <<"No flights found matching the search criteria.">>

\* the request parameter each query field is sent as
ParamName(field) ==
    IF field = "flight_number" THEN "flight_iata" ELSE field

\* C13: for every query, the request carries the credential and exactly one
\* parameter for each query field that is not empty, none for a field that
\* is absent or empty; the departure, arrival and airline codes are sent in
\* upper case ("jfk" as "JFK"), the flight number and the date unchanged.
C13_RequestParameters ==
    (Looked /\ Truthy(env.CLIENTSECRET) /\ TheLookup.q \in LookupQueries) =>
        LET q == TheLookup.q
            given == {f \in DOMAIN q : q[f] # None /\ q[f].v # << >>}
        IN  /\ Len(TheLookup.result.requests) = 1
            /\ LET p == TheLookup.result.requests[1]
               IN  /\ DOMAIN p = {"access_key"} \cup {ParamName(f) : f \in given}
                   /\ p.access_key = env.CLIENTSECRET.v
                   /\ "flight_number" \in given =>
                          p.flight_iata = q.flight_number.v
                   /\ "flight_date" \in given =>
                          p.flight_date = q.flight_date.v
                   /\ "dep_iata" \in given =>
                          q.dep_iata.v = <<"jfk">> /\ p.dep_iata = <<"JFK">>
                   /\ "arr_iata" \in given =>
                          q.arr_iata.v = <<"lax">> /\ p.arr_iata = <<"LAX">>
                   /\ "airline_iata" \in given =>
                          /\ q.airline_iata.v = <<"aa">>
                          /\ p.airline_iata = <<"AA">>

\* a lower-case flight number and departure code, an empty arrival code, no
\* airline
C13_Witness ==
    /\ Looked
    /\ Truthy(env.CLIENTSECRET)
    /\ TheLookup.q.flight_number = Str(<<"aa100">>)
    /\ TheLookup.q.dep_iata = Str(<<"jfk">>)
    /\ TheLookup.q.arr_iata = Str(<< >>)
    /\ TheLookup.q.airline_iata = None
    /\ Len(TheLookup.result.requests) = 1
    /\ DOMAIN TheLookup.result.requests[1] \subseteq
           {"access_key", "flight_iata", "dep_iata", "flight_date"}

\* the entry holds a value, not null, at the path
SuppliesValue(entry, path) ==
    Supplies(entry, path) /\ Supplied(entry, path) # None

\* C17: every record of the returned array has the same fixed shape, and
\* each of its fields holds "N/A" whenever the provider entry does not
\* supply a value for it, however incomplete the entry is.
C17_FixedShapeWithSentinel ==
    ReturnsArray =>
        LET flights == ResultList(TheLookup.http)
            n == IF Len(flights) < 5 THEN Len(flights) ELSE 5
            text == TheLookup.result.text
            width == Len(LeafPaths)
            Entry(k) == flights[((k - 1) \div width) + 1]
            Path(k) == LeafPaths[((k - 1) % width) + 1]
            values == Values(text)
        IN  /\ Skeleton(text) = <<"[">> \o Repeat(RecordSkeleton, n) \o <<"]">>
            /\ Len(values) = n * width
            /\ \A k \in 1..(n * width) :
                   ~SuppliesValue(Entry(k), Path(k)) =>
                       values[k] = Str(<<"N/A">>)

IsSearchFlights(tool_call) == tool_call.function.name = "search_flights"

\* C14: a tool call whose name is not search_flights is skipped: no tool
\* message is emitted for it and no handler runs for it, the other tool
\* calls of the same response are still processed, the round still counts
\* against the iteration budget, and the loop goes on to the next provider
\* call (or, in the last round, returns) without raising.
C14_UnknownToolSkipped ==
    /\ []((pc = "loop" /\ calls > 0) =>
             LET k == LastAssistantPos
                 known == SelectSeq(current_messages[k].tool_calls,
                                    IsSearchFlights)
             IN  /\ Len(current_messages) = k + Len(known)
                 /\ \A i \in 1..Len(known) :
                        /\ IsTool(current_messages[k + i])
                        /\ current_messages[k + i].tool_call_id = known[i].id)
    /\ [][(pc = "tools" /\ ~IsSearchFlights(CurrentToolCall))
          => /\ responses' = responses
             /\ tool_runs' = tool_runs
             /\ http_log' = http_log
             /\ calls' = calls
             /\ assistant_message' = assistant_message
             /\ IF tc_index < Len(assistant_message.tool_calls)
                THEN /\ pc' = "tools"
                     /\ tc_index' = tc_index + 1
                     /\ iteration' = iteration
                     /\ current_messages' = current_messages
                ELSE /\ iteration' = iteration + 1
                     /\ current_messages' = current_messages \o responses
                     /\ IF iteration + 1 < 5
                        THEN pc' = "loop" /\ outcome' = outcome
                        ELSE pc' = "returned" /\ outcome'.kind = "return"]_vars

\* book_flight was skipped, the search_flights call after it was answered,
\* one round is counted and the next provider call is due
C14_Witness ==
    /\ pc = "loop"
    /\ calls = 1
    /\ iteration = 1
    /\ ~IsSearchFlights(assistant_message.tool_calls[1])
    /\ IsSearchFlights(assistant_message.tool_calls[2])
    /\ tool_runs = 1
    /\ Len(current_messages) = Len(api_messages) + 2
    /\ current_messages[Len(current_messages)].tool_call_id =
           assistant_message.tool_calls[2].id

\* the assistant message nearest before position i of the list
HasPrecedingAssistant(list, i) == \E k \in 1..(i - 1) : IsAssistant(list[k])

PrecedingAssistant(list, i) ==
    CHOOSE k \in 1..(i - 1) :
        /\ IsAssistant(list[k])
        /\ \A j \in (k + 1)..(i - 1) : ~IsAssistant(list[j])

HasCall(m, id) == \E p \in 1..Len(m.tool_calls) : m.tool_calls[p].id = id

CallPosition(m, id) ==
    CHOOSE p \in 1..Len(m.tool_calls) : m.tool_calls[p].id = id

\* C15: in every message list sent to the provider, each tool message
\* carries the id of a tool call of the nearest preceding assistant message,
\* the tool messages follow that assistant message directly, with no other
\* message between, and in the order of their tool calls.
C15_ToolMessagesPaired ==
    \A i \in 1..Len(last_sent) :
        IsTool(last_sent[i]) =>
            /\ HasPrecedingAssistant(last_sent, i)
            /\ LET k == PrecedingAssistant(last_sent, i)
                   a == last_sent[k]
                   id == last_sent[i].tool_call_id
               IN  /\ HasToolCalls(a)
                   /\ HasCall(a, id)
                   /\ \A j \in (k + 1)..(i - 1) :
                          /\ IsTool(last_sent[j])
                          /\ HasCall(a, last_sent[j].tool_call_id)
                          /\ CallPosition(a, last_sent[j].tool_call_id)
                                 < CallPosition(a, id)

\* a list was sent that holds a round with two tool messages and a round
\* whose first tool call was skipped
C15_Witness ==
    /\ \E i \in 1..(Len(last_sent) - 1) :
           IsTool(last_sent[i]) /\ IsTool(last_sent[i + 1])
    /\ \E k \in 1..(Len(last_sent) - 1) :
           /\ IsAssistant(last_sent[k])
           /\ HasToolCalls(last_sent[k])
           /\ ~IsSearchFlights(last_sent[k].tool_calls[1])
           /\ IsTool(last_sent[k + 1])
           /\ last_sent[k + 1].tool_call_id = last_sent[k].tool_calls[2].id

\* C19: the working conversation only grows: the list sent in the first
\* provider call of a turn is the input conversation, and the list sent in
\* each later call has the list of the previous call as a strict prefix and
\* exactly one assistant message, followed by the tool messages of that
\* round, after it.
C19_AppendOnly ==
    [][(calls' = calls + 1) =>
          IF calls = 0
          THEN last_sent' = api_messages
          ELSE LET old == Len(last_sent)
                   new == Len(last_sent')
               IN  /\ new > old
                   /\ SubSeq(last_sent', 1, old) = last_sent
                   /\ IsAssistant(last_sent'[old + 1])
                   /\ last_sent'[old + 1] = AssistantDict(assistant_message)
                   /\ \A j \in (old + 2)..new :
                          /\ IsTool(last_sent'[j])
                          /\ HasCall(assistant_message,
                                     last_sent'[j].tool_call_id)]_vars

\* the third call of a turn was made, after a round with two tool messages
C19_Witness ==
    /\ calls = 3
    /\ Len(last_sent) >= Len(api_messages) + 4
    /\ SubSeq(last_sent, 1, Len(api_messages)) = api_messages
    /\ IsTool(last_sent[Len(last_sent)])
    /\ IsTool(last_sent[Len(last_sent) - 1])

C18_InputConversationUnchanged ==
    /\ [][(pc \in {"loop", "tools"}) => api_messages' = api_messages]_vars
    /\ [](pc \in {"loop", "tools", "returned", "raised"} =>
             api_messages = BuildApiMessages(session_messages))

\* the call raised after a round that had grown the working copy
C18_Witness ==
    /\ pc = "raised"
    /\ iteration >= 1
    /\ Len(current_messages) >= Len(api_messages) + 2
    /\ api_messages = BuildApiMessages(session_messages)

\* C20: after any sequence of turns the session history holds exactly two
\* messages per finished turn, a user message then an assistant message,
\* never a system or tool message or a tool_calls field; the conversation
\* given to the loop in a turn is exactly one system message followed by
\* that history, the prompt of the turn included.
C20_SessionHistoryShape ==
    /\ Len(session_messages) = IF pc = "idle" THEN 2 * turns ELSE 2 * turns - 1
    /\ \A i \in 1..Len(session_messages) :
           /\ DOMAIN session_messages[i] = {"role", "content"}
           /\ session_messages[i].role =
                  IF i % 2 = 1 THEN "user" ELSE "assistant"
    /\ pc \in {"loop", "tools", "returned", "raised"} =>
           /\ Len(api_messages) = Len(session_messages) + 1
           /\ api_messages[1] = [role |-> "system", content |-> SYSTEM_MESSAGE]
           /\ \A i \in 1..Len(session_messages) :
                  api_messages[i + 1] = session_messages[i]

\* the second turn, after tool rounds, with the first turn's two messages
\* and the new prompt as its input
C20_Witness ==
    /\ turns = 2
    /\ pc = "returned"
    /\ iteration >= 1
    /\ Len(session_messages) = 3
    /\ Len(api_messages) = 4
    /\ Len(current_messages) >= 7

====
